---- MODULE Spec2Model ----
(***************************************************************************)
(* The /proc/[pid]/limits parser of procinfo-rs (src/src/pid/limits.rs).   *)
(* Byte buffers are sequences of one-character strings.  The grammar is    *)
(* modelled combinator by combinator, parse_limits as one step per         *)
(* try_parse! line, and limits_file as the final result adaptation.        *)
(***************************************************************************)
EXTENDS Integers, Sequences, FiniteSets, TLC

VARIABLES table, input, rest, step, fields, result, limits, ret, offsets

vars == <<table, input, rest, step, fields, result, limits, ret, offsets>>

-----------------------------------------------------------------------------
(* Bounds of the explored inputs *)

MaxVal == 2

MaxPad == 1

MaxJunk == 1

(* Program constants *)

NumRows == 16

LIMITS_INFINITY == -1

MICROS_PER_SEC == 1000000

NANOS_PER_MICRO == 1000

-----------------------------------------------------------------------------
(* Bytes and slices *)

SP == " "

TAB == "\t"

LF == "\n"

CR == "\r"

DigitChars == <<"0", "1", "2", "3", "4", "5", "6", "7", "8", "9">>

Digits == {DigitChars[k] : k \in 1..10}

DigitVal(c) == (CHOOSE k \in 1..10 : DigitChars[k] = c) - 1

Take(s, n) == SubSeq(s, 1, n)

Drop(s, n) == SubSeq(s, n + 1, Len(s))

UNLIMITED == <<"u", "n", "l", "i", "m", "i", "t", "e", "d">>

BYTES == <<"b", "y", "t", "e", "s">>

FILES == <<"f", "i", "l", "e", "s">>

LOCKS == <<"l", "o", "c", "k", "s">>

PROCESSES == <<"p", "r", "o", "c", "e", "s", "s", "e", "s">>

SECONDS == <<"s", "e", "c", "o", "n", "d", "s">>

SIGNALS == <<"s", "i", "g", "n", "a", "l", "s">>

US == <<"u", "s">>

-----------------------------------------------------------------------------
(* nom's IResult and Rust's Option *)

Done(r, v) == [kind |-> "Done", rest |-> r, val |-> v]

Error(i) == [kind |-> "Error", rest |-> i, val |-> <<>>]

Incomplete(i) == [kind |-> "Incomplete", rest |-> i, val |-> <<>>]

None == [tag |-> "None", val |-> <<>>]

Some(x) == [tag |-> "Some", val |-> x]

-----------------------------------------------------------------------------
(* The nom combinators the grammar is written with *)

\* Number of leading bytes of i whose membership in S is m
LeadCount(i, S, m) ==
    IF \A k \in 1..Len(i) : (i[k] \in S) = m THEN Len(i)
    ELSE (CHOOSE k \in 1..Len(i) :
             (i[k] \in S) # m /\ \A j \in 1..(k - 1) : (i[j] \in S) = m) - 1

\* Offset of the first occurrence of t in i, or -1
FindSubstring(i, t) ==
    LET At(k) == SubSeq(i, k + 1, k + Len(t)) = t
        last  == Len(i) - Len(t)
    IN  IF \E k \in 0..last : At(k)
        THEN CHOOSE k \in 0..last : At(k) /\ \A j \in 0..(k - 1) : ~At(j)
        ELSE -1

tag(i, t) ==
    LET m == IF Len(i) < Len(t) THEN Len(i) ELSE Len(t)
    IN  IF Take(i, m) # Take(t, m) THEN Error(i)
        ELSE IF m < Len(t) THEN Incomplete(i)
        ELSE Done(Drop(i, Len(t)), t)

take_until(i, t) ==
    IF Len(t) > Len(i) THEN Incomplete(i)
    ELSE LET idx == FindSubstring(i, t)
         IN  IF idx = -1 THEN Error(i) ELSE Done(Drop(i, idx), Take(i, idx))

take_until_and_consume(i, t) ==
    IF Len(t) > Len(i) THEN Incomplete(i)
    ELSE LET idx == FindSubstring(i, t)
         IN  IF idx = -1 THEN Error(i)
             ELSE Done(Drop(i, idx + Len(t)), Take(i, idx))

\* The bytes nom::is_space accepts
is_space == {SP, TAB}

\* take_while!(S): the longest prefix of bytes in S, possibly empty
take_while(i, S) ==
    LET n == LeadCount(i, S, TRUE) IN Done(Drop(i, n), Take(i, n))

\* Defect: the end of the buffer taken for a line terminator
line_ending_or_eof(i) ==
    IF i = <<>> THEN Done(i, <<>>)
    ELSE LET a == tag(i, <<LF>>)
         IN  IF a.kind # "Error" THEN a ELSE tag(i, <<CR, LF>>)

line_ending(i) ==
    LET a == tag(i, <<LF>>)
    IN  IF a.kind # "Error" THEN a ELSE tag(i, <<CR, LF>>)

\* Defect: the unit word made mandatory
opt_strict(r, i) ==
    IF r.kind = "Done" THEN Done(r.rest, Some(r.val)) ELSE r

opt(r, i) ==
    IF r.kind = "Done" THEN Done(r.rest, Some(r.val))
    ELSE IF r.kind = "Error" THEN Done(i, None)
    ELSE r

-----------------------------------------------------------------------------
(* parsers::parse_isize and parsers::parse_word *)

RECURSIVE DecVal(_)
DecVal(ds) ==
    IF ds = <<>> THEN 0
    ELSE 10 * DecVal(Take(ds, Len(ds) - 1)) + DigitVal(ds[Len(ds)])

is_whitespace == {SP, TAB, LF, CR}

parse_isize(i) ==
    LET neg  == i # <<>> /\ i[1] = "-"
        body == IF neg THEN Tail(i) ELSE i
        n    == LeadCount(body, Digits, TRUE)
    IN  IF n = 0 THEN Error(i)
        ELSE Done(Drop(body, n),
                  IF neg THEN 0 - DecVal(Take(body, n)) ELSE DecVal(Take(body, n)))

parse_word(i) ==
    LET n == LeadCount(i, is_whitespace, FALSE)
    IN  IF n = 0 THEN Error(i) ELSE Done(Drop(i, n), Take(i, n))

-----------------------------------------------------------------------------
(* The grammar of limits.rs *)

LimitUnit(v, t) == [variant |-> v, text |-> t]

\* Defect: "us" classified as Seconds
unit_types_us_as_seconds(unit) ==
    IF unit.tag = "None" THEN None
    ELSE LET u == unit.val
         IN  CASE u = BYTES     -> Some(LimitUnit("Bytes", <<>>))
               [] u = FILES     -> Some(LimitUnit("Files", <<>>))
               [] u = LOCKS     -> Some(LimitUnit("Locks", <<>>))
               [] u = PROCESSES -> Some(LimitUnit("Processes", <<>>))
               [] u = SECONDS   -> Some(LimitUnit("Seconds", <<>>))
               [] u = SIGNALS   -> Some(LimitUnit("Signals", <<>>))
               [] u = US        -> Some(LimitUnit("Seconds", <<>>))
               [] OTHER         -> Some(LimitUnit("Other", u))

unit_types(unit) ==
    IF unit.tag = "None" THEN None
    ELSE LET u == unit.val
         IN  CASE u = BYTES     -> Some(LimitUnit("Bytes", <<>>))
               [] u = FILES     -> Some(LimitUnit("Files", <<>>))
               [] u = LOCKS     -> Some(LimitUnit("Locks", <<>>))
               [] u = PROCESSES -> Some(LimitUnit("Processes", <<>>))
               [] u = SECONDS   -> Some(LimitUnit("Seconds", <<>>))
               [] u = SIGNALS   -> Some(LimitUnit("Signals", <<>>))
               [] u = US        -> Some(LimitUnit("Us", <<>>))
               [] OTHER         -> Some(LimitUnit("Other", u))

\* Defect: "unlimited" mapped to 0 instead of LIMITS_INFINITY
parse_limit_value_zero(i) ==
    LET a == tag(i, UNLIMITED)
    IN  IF a.kind = "Done" THEN Done(a.rest, 0)
        ELSE IF a.kind = "Incomplete" THEN a
        ELSE parse_isize(i)

\* alt!(map!(tag_s!("unlimited"), |_| LIMITS_INFINITY) | parse_isize)
parse_limit_value(i) ==
    LET a == tag(i, UNLIMITED)
    IN  IF a.kind = "Done" THEN Done(a.rest, LIMITS_INFINITY)
        ELSE IF a.kind = "Incomplete" THEN a
        ELSE parse_isize(i)

Triple(s, h, u) == [soft |-> s, hard |-> h, unit |-> u]

limit_line_do_parse(i) ==
    LET r1 == take_until(i, <<SP, SP>>)
    IN  IF r1.kind # "Done" THEN r1 ELSE
    LET r2 == take_while(r1.rest, is_space)
        r3 == parse_limit_value(r2.rest)
    IN  IF r3.kind # "Done" THEN r3 ELSE
    LET r4 == take_while(r3.rest, is_space)
        r5 == parse_limit_value(r4.rest)
    IN  IF r5.kind # "Done" THEN r5 ELSE
    LET r6 == take_while(r5.rest, is_space)
        r7 == opt(parse_word(r6.rest), r6.rest)
    IN  IF r7.kind # "Done" THEN r7 ELSE
    LET r8 == take_while(r7.rest, is_space)
        r9 == line_ending(r8.rest)
    IN  IF r9.kind # "Done" THEN r9
        ELSE Done(r9.rest, Triple(r3.val, r5.val, unit_types(r7.val)))

\* Defect: a line that fails to parse is skipped and the next one tried
RECURSIVE parse_limit_line_skip(_)
parse_limit_line_skip(i) ==
    LET r  == limit_line_do_parse(i)
        nl == FindSubstring(i, <<LF>>)
    IN  IF r.kind = "Done" \/ nl = -1 THEN r
        ELSE parse_limit_line_skip(Drop(i, nl + 1))

\* named!(parse_limit_line<...>, do_parse!(...))
parse_limit_line(i) == limit_line_do_parse(i)

-----------------------------------------------------------------------------
(* Limit, LimitDuration and time::Duration *)

Duration(s, n) == [secs |-> s, nanos |-> n]

seconds(s) == Duration(s, 0)

microseconds(us) ==
    Duration(us \div MICROS_PER_SEC, (us % MICROS_PER_SEC) * NANOS_PER_MICRO)

Limit(s, h, u) ==
    [type |-> "Limit", soft_limit |-> s, hard_limit |-> h, unit |-> u]

LimitDuration(s, h, u) ==
    [type |-> "LimitDuration", soft_limit |-> s, hard_limit |-> h, unit |-> u]

Panic(msg) == [panic |-> msg]

IsPanic(v) == "panic" \in DOMAIN v

to_limit(t) == Limit(t.soft, t.hard, t.unit)

\* Defect: microsecond rows converted with Duration::seconds
to_limit_duration_seconds_only(t) ==
    IF t.unit.tag = "Some"
    THEN CASE t.unit.val.variant \in {"Seconds", "Us"} ->
                LimitDuration(seconds(t.soft), seconds(t.hard), t.unit)
           [] OTHER -> Panic("LimitUnit is not of type Seconds or Us")
    ELSE Panic("Limit unit is None")

to_limit_duration(t) ==
    IF t.unit.tag = "Some"
    THEN CASE t.unit.val.variant = "Seconds" ->
                LimitDuration(seconds(t.soft), seconds(t.hard), t.unit)
           [] t.unit.val.variant = "Us" ->
                LimitDuration(microseconds(t.soft), microseconds(t.hard), t.unit)
           [] OTHER -> Panic("LimitUnit is not of type Seconds or Us")
    ELSE Panic("Limit unit is None")

\* The rows parse_limits maps through to_limit_duration
IsDurationRow(k) == k = 1 \/ k = NumRows

\* Defect: two rows bound to each other's field
FieldNames_swapped ==
    <<"max_cpu_time", "max_file_size", "max_data_size", "max_stack_size",
      "max_core_file_size", "max_resident_set", "max_processes", "max_open_files",
      "max_address_space", "max_locked_memory", "max_file_locks",
      "max_pending_signals", "max_msgqueue_size", "max_nice_priority",
      "max_realtime_priority", "max_realtime_timeout">>

\* The binding of each try_parse! line, which is also the field it fills
FieldNames ==
    <<"max_cpu_time", "max_file_size", "max_data_size", "max_stack_size",
      "max_core_file_size", "max_resident_set", "max_processes", "max_open_files",
      "max_locked_memory", "max_address_space", "max_file_locks",
      "max_pending_signals", "max_msgqueue_size", "max_nice_priority",
      "max_realtime_priority", "max_realtime_timeout">>

FieldIndex(name) == CHOOSE k \in 1..NumRows : FieldNames[k] = name

NoLimits == [none |-> TRUE]

-----------------------------------------------------------------------------
(* The tables handed to the parser.  A table is described line by line    *)
(* and rendered to bytes; the description is kept next to the buffer so   *)
(* that what was parsed can be compared with what was written.            *)

RECURSIVE NatToChars(_)
NatToChars(n) ==
    IF n < 10 THEN <<DigitChars[n + 1]>>
    ELSE NatToChars(n \div 10) \o <<DigitChars[(n % 10) + 1]>>

Tok(t, v, good) == [text |-> t, val |-> v, ok |-> good]

IntTok(n) ==
    Tok(IF n < 0 THEN <<"-">> \o NatToChars(0 - n) ELSE NatToChars(n), n, TRUE)

UnlimitedTok == Tok(UNLIMITED, -1, TRUE)

MinusZeroOneTok == Tok(<<"-", "0", "1">>, -1, TRUE)

BadToks == {Tok(<<"x">>, 0, FALSE), Tok(<<"-">>, 0, FALSE)}

Tokens ==
    {IntTok(n) : n \in (0 - MaxVal)..MaxVal} \cup {UnlimitedTok, MinusZeroOneTok}
        \cup BadToks

KnownWords == {BYTES, FILES, LOCKS, PROCESSES, SECONDS, SIGNALS, US}

OtherWords == {<<"b", "y", "t", "e">>, <<"u", "s", "e", "c">>, <<"K", "B">>}

Words == KnownWords \cup OtherWords

NoWord == <<>>

Spaces(n) == [k \in 1..n |-> SP]

LABEL == <<"M", SP, "c">>

HEADER == <<"L", SP, SP, "S", LF>>

EOLs == {<<LF>>, <<CR, LF>>}

Row(s, h, u, p, e) ==
    [kind |-> "row", soft |-> s, hard |-> h, unit |-> u, pad |-> p, eol |-> e,
     text |-> <<>>]

Junk(t) ==
    [kind |-> "junk", soft |-> IntTok(0), hard |-> IntTok(0), unit |-> NoWord,
     pad |-> 0, eol |-> <<LF>>, text |-> t]

RenderLine(d) ==
    IF d.kind = "junk" THEN d.text \o d.eol
    ELSE LABEL \o <<SP, SP>> \o Spaces(d.pad) \o d.soft.text
           \o <<SP>> \o Spaces(d.pad) \o d.hard.text
           \o (IF d.unit = NoWord THEN <<>> ELSE <<SP>> \o Spaces(d.pad) \o d.unit)
           \o Spaces(d.pad) \o d.eol

RECURSIVE Concat(_)
Concat(ss) == IF ss = <<>> THEN <<>> ELSE Head(ss) \o Concat(Tail(ss))

StripEol(s) ==
    IF Len(s) >= 2 /\ SubSeq(s, Len(s) - 1, Len(s)) = <<CR, LF>> THEN Take(s, Len(s) - 2)
    ELSE IF Len(s) >= 1 /\ s[Len(s)] = LF THEN Take(s, Len(s) - 1)
    ELSE s

\* The unit word /proc prints in row k
CanonUnit(k) ==
    CASE k = 1 -> SECONDS
      [] k \in {2, 3, 4, 5, 6, 9, 10, 13} -> BYTES
      [] k = 7 -> PROCESSES
      [] k = 8 -> FILES
      [] k = 11 -> LOCKS
      [] k = 12 -> SIGNALS
      [] k \in {14, 15} -> NoWord
      [] OTHER -> US

Canon(k) == Row(IntTok(k), IntTok(k + NumRows), CanonUnit(k), 1, <<LF>>)

Variants(k) ==
    {[Canon(k) EXCEPT !.soft = s] : s \in Tokens}
      \cup {[Canon(k) EXCEPT !.hard = h] : h \in Tokens}
      \cup {[Canon(k) EXCEPT !.unit = u] : u \in Words \cup {NoWord}}
      \cup {[Canon(k) EXCEPT !.pad = p] : p \in 0..MaxPad}
      \cup {[Canon(k) EXCEPT !.eol = e] : e \in EOLs}
      \cup {[Canon(k) EXCEPT !.unit = NoWord, !.pad = p] : p \in 0..MaxPad}

JunkLines ==
    {Junk(<<>>), Junk(<<"x">>), Junk(<<"M", SP, "1", SP, "2">>),
     Junk(<<"z", SP, SP>>)}

Extras == JunkLines \cup {[Canon(1) EXCEPT !.soft = s, !.unit = BYTES] : s \in BadToks}

ExtraSeqs == UNION {[1..n -> Extras] : n \in 1..MaxJunk}

\* A table: the first n canonical rows, row p (if any) replaced by v, and the
\* lines of extra inserted before row at.  With gap, an empty line precedes
\* every row, as in the literal of tests::test_parse_limits; cut bytes are
\* missing at the end.
Table(h, n, p, v, at, extra, nl) ==
    [header |-> h, n |-> n, p |-> p, v |-> v, at |-> at, extra |-> extra, nl |-> nl,
     gap |-> FALSE, cut |-> 0]

Lines(t) ==
    LET base == [k \in 1..t.n |-> IF k = t.p THEN t.v ELSE Canon(k)]
    IN  IF t.gap THEN Concat([k \in 1..t.n |-> <<Junk(<<>>), base[k]>>])
        ELSE IF t.extra = <<>> THEN base
        ELSE SubSeq(base, 1, t.at - 1) \o t.extra \o SubSeq(base, t.at, t.n)

RenderTable(t) ==
    LET ls   == Lines(t)
        full == t.header \o Concat([k \in 1..Len(ls) |-> RenderLine(ls[k])])
        kept == IF t.nl THEN full ELSE StripEol(full)
    IN  Take(kept, Len(kept) - t.cut)

TruncTables ==
    {Table(HEADER, n, 0, Canon(1), 0, <<>>, b) : n \in 0..NumRows, b \in BOOLEAN}
      \cup {Table(h, 0, 0, Canon(1), 0, <<>>, TRUE) : h \in {<<>>, <<"L">>}}

ReplaceTables ==
    UNION {{Table(HEADER, NumRows, p, v, 0, <<>>, b) :
               v \in Variants(p), b \in BOOLEAN}
             \cup {Table(HEADER, p, p, v, 0, <<>>, TRUE) : v \in Variants(p)} :
           p \in 1..NumRows}

InsertTables ==
    {Table(HEADER, NumRows, 0, Canon(1), at, e, TRUE) :
        at \in 1..NumRows, e \in ExtraSeqs}

FullTable == Table(HEADER, NumRows, 0, Canon(1), 0, <<>>, TRUE)

\* The canonical table with its last c bytes missing
CutTables ==
    {[FullTable EXCEPT !.cut = c] : c \in 2..Len(RenderTable(FullTable))}

\* The layout of the table in tests::test_parse_limits
TestTables == {[FullTable EXCEPT !.gap = TRUE, !.n = n] : n \in {NumRows - 1, NumRows}}

Tables ==
    TruncTables \cup ReplaceTables \cup InsertTables \cup CutTables \cup TestTables

-----------------------------------------------------------------------------
(* parse_limits, one action per try_parse! line, and limits_file *)

Consumed == Len(input) - Len(rest)

Init ==
    /\ table \in Tables
    /\ input = RenderTable(table)
    /\ rest = input
    /\ step = 0
    /\ fields = <<>>
    /\ result = "Running"
    /\ limits = NoLimits
    /\ ret = "None"
    /\ offsets = <<>>

\* Defect: a failed row is passed over instead of ending the parse
Advance_skip(r, field) ==
    /\ rest' = (IF r.kind = "Done" THEN r.rest ELSE rest)
    /\ step' = step + 1
    /\ fields' = fields \o field
    /\ offsets' = Append(offsets, Len(input) - Len(rest'))
    /\ result' = result

\* Defect: the next row is parsed from the start of the buffer again
Advance_rewind(r, field) ==
    IF r.kind = "Done"
    THEN /\ rest' = input
         /\ step' = step + 1
         /\ fields' = fields \o field
         /\ offsets' = Append(offsets, Len(input) - Len(r.rest))
         /\ result' = result
    ELSE /\ result' = r.kind
         /\ UNCHANGED <<rest, step, fields, offsets>>

\* try_parse!: continue on Done, return the Error or Incomplete otherwise
Advance(r, field) ==
    IF r.kind = "Done"
    THEN /\ rest' = r.rest
         /\ step' = step + 1
         /\ fields' = fields \o field
         /\ offsets' = Append(offsets, Len(input) - Len(r.rest))
         /\ result' = result
    ELSE /\ result' = r.kind
         /\ UNCHANGED <<rest, step, fields, offsets>>

SkipHeader ==
    /\ result = "Running"
    /\ step = 0
    /\ Advance(take_until_and_consume(rest, <<LF>>), <<>>)
    /\ UNCHANGED <<table, input, limits, ret>>

ParseLimitRow ==
    /\ result = "Running"
    /\ step \in 1..NumRows
    /\ ~IsDurationRow(step)
    /\ LET r == parse_limit_line(rest)
       IN  Advance(r, IF r.kind = "Done" THEN <<to_limit(r.val)>> ELSE <<>>)
    /\ UNCHANGED <<table, input, limits, ret>>

ParseDurationRow ==
    /\ result = "Running"
    /\ step \in 1..NumRows
    /\ IsDurationRow(step)
    /\ LET r == parse_limit_line(rest)
           d == to_limit_duration(r.val)
       IN  IF r.kind = "Done" /\ IsPanic(d)
           THEN /\ result' = "Panic"
                /\ UNCHANGED <<rest, step, fields, offsets>>
           ELSE Advance(r, IF r.kind = "Done" THEN <<d>> ELSE <<>>)
    /\ UNCHANGED <<table, input, limits, ret>>

\* IResult::Done(rest, Limits{...})
Assemble ==
    /\ result = "Running"
    /\ step = NumRows + 1
    /\ result' = "Done"
    /\ limits' = [name \in {FieldNames[k] : k \in 1..NumRows} |->
                     fields[FieldIndex(name)]]
    /\ UNCHANGED <<table, input, rest, step, fields, ret, offsets>>

\* parsers::map_result
map_result(k) == IF k = "Done" THEN "Ok" ELSE "Err"

limits_file ==
    /\ result \in {"Done", "Error", "Incomplete"}
    /\ ret = "None"
    /\ ret' = map_result(result)
    /\ UNCHANGED <<table, input, rest, step, fields, result, limits, offsets>>

Next == SkipHeader \/ ParseLimitRow \/ ParseDurationRow \/ Assemble \/ limits_file

Spec == Init /\ [][Next]_vars

-----------------------------------------------------------------------------
(* What a table says, read off its description *)

IsRowLine(d) == d.kind = "row"

\* The row descriptions of a table, in order
RowDescs(t) == SelectSeq(Lines(t), IsRowLine)

\* A row line is well formed when both bound columns hold "unlimited" or an
\* optionally negative decimal number
WellFormed(d) == d.kind = "row" /\ d.soft.ok /\ d.hard.ok

HasDoubleSpace(d) == FindSubstring(RenderLine(d), <<SP, SP>>) # -1

TimeWords == {SECONDS, US}

\* Every line is a well-formed row, the duration rows carry a time unit
RowsValid(t) ==
    /\ t.header = HEADER
    /\ t.extra = <<>> /\ ~t.gap
    /\ \A k \in 1..t.n :
          /\ WellFormed(Lines(t)[k])
          /\ IsDurationRow(k) => Lines(t)[k].unit \in TimeWords

\* Exactly the 16 rows, completely present
Complete(t) == t.n = NumRows /\ t.nl /\ t.cut = 0

\* Offset in the rendered table just after line k
LineEnd(t, k) ==
    Len(t.header) + Len(Concat([j \in 1..k |-> RenderLine(Lines(t)[j])]))

\* The classification the documentation gives for a unit word
UnitName(w) ==
    CASE w = BYTES     -> "Bytes"
      [] w = FILES     -> "Files"
      [] w = LOCKS     -> "Locks"
      [] w = PROCESSES -> "Processes"
      [] w = SECONDS   -> "Seconds"
      [] w = SIGNALS   -> "Signals"
      [] w = US        -> "Us"
      [] OTHER         -> "Other"

ExpectedUnit(w) ==
    IF w = NoWord THEN None
    ELSE Some(LimitUnit(UnitName(w), IF w \in KnownWords THEN <<>> ELSE w))

\* A duration as a whole number of microseconds
TotalMicros(d) == d.secs * MICROS_PER_SEC + (d.nanos \div NANOS_PER_MICRO)

Normalized(d) ==
    d.nanos >= 0 /\ d.nanos < 1000 * MICROS_PER_SEC /\ d.nanos % NANOS_PER_MICRO = 0

UnitMicros(w) == IF w = SECONDS THEN MICROS_PER_SEC ELSE 1

\* f is the duration-typed field holding exactly d's soft and hard amounts
HoldsDuration(f, d) ==
    /\ f.type = "LimitDuration"
    /\ Normalized(f.soft_limit) /\ Normalized(f.hard_limit)
    /\ TotalMicros(f.soft_limit) = d.soft.val * UnitMicros(d.unit)
    /\ TotalMicros(f.hard_limit) = d.hard.val * UnitMicros(d.unit)
    /\ f.unit = ExpectedUnit(d.unit)

\* f is the plain field holding d's raw integers
HoldsLimit(f, d) ==
    /\ f.type = "Limit"
    /\ f.soft_limit = d.soft.val
    /\ f.hard_limit = d.hard.val
    /\ f.unit = ExpectedUnit(d.unit)

Failed == result \in {"Error", "Incomplete", "Panic"}

\* parse_limits has returned (or the process has aborted)
Returned == result # "Running"

-----------------------------------------------------------------------------
\* C1: a duration row (row 1 or row 16) that parses but carries no time unit
\* ends the parse in an ordinary error returned to the caller, never in an
\* abort of the process.
C1_NoAbort == result # "Panic"

-----------------------------------------------------------------------------
Truncated(t) ==
    /\ t.extra = <<>> /\ ~t.gap
    /\ t.n < NumRows \/ t.cut > 0
    /\ \A k \in 1..t.n :
          /\ WellFormed(Lines(t)[k])
          /\ IsDurationRow(k) => Lines(t)[k].unit \in TimeWords

\* C2: a buffer that ends before all 16 rows are consumed (a header and k < 16
\* well-formed rows, k = 0 and a missing header terminator included, or the
\* table cut anywhere) never yields a Limits record: the grammar stops with
\* Error or Incomplete, limits_file returns Err, no record is assembled.
C2_TruncatedIsError ==
    Truncated(table) =>
        /\ result \in {"Running", "Error", "Incomplete"}
        /\ step <= NumRows
        /\ limits = NoLimits
        /\ ret \in {"None", "Err"}
        /\ Returned => result \in {"Error", "Incomplete"}

C2_Witness ==
    /\ Truncated(table) /\ table.n = 10 /\ table.cut = 0
    /\ Len(fields) = 10 /\ result = "Incomplete" /\ ret = "Err"

-----------------------------------------------------------------------------
DocumentedOrder ==
    <<"max_cpu_time", "max_file_size", "max_data_size", "max_stack_size",
      "max_core_file_size", "max_resident_set", "max_processes", "max_open_files",
      "max_locked_memory", "max_address_space", "max_file_locks",
      "max_pending_signals", "max_msgqueue_size", "max_nice_priority",
      "max_realtime_priority", "max_realtime_timeout">>

\* C3: a valid table (header, 16 well-formed rows, rows 1 and 16 with a time
\* unit) parses, and the i-th row's triple is in the i-th field of Limits in
\* the documented order; fields 1 and 16 are durations, the other 14 keep the
\* row's integers.
C3_ValidTableParses ==
    (RowsValid(table) /\ Complete(table)) =>
        /\ ~Failed
        /\ ret # "Err"
        /\ step = NumRows + 1 /\ ret # "None" => ret = "Ok"
        /\ result = "Done" =>
              /\ DOMAIN limits = {DocumentedOrder[k] : k \in 1..16}
              /\ \A k \in 1..16 :
                    LET f == limits[DocumentedOrder[k]]
                        d == Lines(table)[k]
                    IN  IF k \in {1, 16} THEN HoldsDuration(f, d)
                        ELSE HoldsLimit(f, d)

C3_Witness ==
    /\ RowsValid(table) /\ Complete(table)
    /\ table.p = 8 /\ table.v.soft = UnlimitedTok
    /\ ret = "Ok"
    /\ limits["max_open_files"].soft_limit = -1
    /\ limits["max_open_files"].hard_limit = 24

-----------------------------------------------------------------------------
MINUS_ONE == <<"-", "1">>

\* x, a bound of field f, is -1: LIMITS_INFINITY, or -1 of the field's unit
YieldsMinusOne(x, f) ==
    IF f.type = "Limit" THEN x = LIMITS_INFINITY
    ELSE /\ Normalized(x)
         /\ TotalMicros(x) =
              0 - (IF f.unit.val.variant = "Seconds" THEN MICROS_PER_SEC ELSE 1)

\* A '-', any number of '0's and a final '1'
SpellsMinusOne(t) ==
    /\ Len(t) >= 2
    /\ t[1] = "-"
    /\ t[Len(t)] = "1"
    /\ \A j \in 2..(Len(t) - 1) : t[j] = "0"

\* C4: in every row and either bound column "unlimited" yields -1 and so does
\* the digit string "-1"; no other token yields -1.
C4_Original ==
    \A k \in 1..Len(fields) :
        LET d == RowDescs(table)[k]
            f == fields[k]
        IN  /\ d.soft.text \in {UNLIMITED, MINUS_ONE} <=> YieldsMinusOne(f.soft_limit, f)
            /\ d.hard.text \in {UNLIMITED, MINUS_ONE} <=> YieldsMinusOne(f.hard_limit, f)

\* C4 (amended): "unlimited" and "-1" yield -1 in every row and either column;
\* the only tokens that yield -1 are "unlimited" and the decimal spellings of
\* minus one ("-1", "-01", ...).
C4_UnlimitedIsMinusOne ==
    \A k \in 1..Len(fields) :
        LET d == RowDescs(table)[k]
            f == fields[k]
        IN  /\ d.soft.text \in {UNLIMITED, MINUS_ONE} => YieldsMinusOne(f.soft_limit, f)
            /\ d.hard.text \in {UNLIMITED, MINUS_ONE} => YieldsMinusOne(f.hard_limit, f)
            /\ YieldsMinusOne(f.soft_limit, f) =>
                  d.soft.text = UNLIMITED \/ SpellsMinusOne(d.soft.text)
            /\ YieldsMinusOne(f.hard_limit, f) =>
                  d.hard.text = UNLIMITED \/ SpellsMinusOne(d.hard.text)

C4_Witness ==
    /\ table.p = 16 /\ table.v.hard = UnlimitedTok
    /\ Len(fields) = 16
    /\ fields[16].hard_limit = Duration(-1, 999999000)
    /\ fields[16].soft_limit = Duration(0, 16000)

-----------------------------------------------------------------------------
Classify(w) == unit_types(IF w = NoWord THEN None ELSE Some(w))

\* C5: the unit classifier never fails: the seven known words map to their
\* variants, any other word w to Other(w) with w unchanged, an absent word to
\* an absent unit, and distinct words never map to the same LimitUnit.
C5_UnitClassifier ==
    /\ \A k \in 1..Len(fields) :
          fields[k].unit = ExpectedUnit(RowDescs(table)[k].unit)
    /\ \A w \in Words : Classify(w).tag = "Some"
    /\ \A w \in OtherWords : Classify(w).val = LimitUnit("Other", w)
    /\ Classify(NoWord).tag = "None"
    /\ \A w1, w2 \in Words : w1 # w2 => Classify(w1).val # Classify(w2).val

C5_Witness ==
    /\ table.p = 3 /\ Len(fields) >= 3
    /\ fields[3].unit.tag = "Some"
    /\ fields[3].unit.val = LimitUnit("Other", <<"b", "y", "t", "e">>)

-----------------------------------------------------------------------------
UnitlessRowAt(t, k) ==
    /\ t.extra = <<>> /\ ~t.gap /\ t.cut = 0
    /\ k <= t.n /\ (k < t.n \/ t.nl)
    /\ WellFormed(Lines(t)[k])
    /\ Lines(t)[k].unit = NoWord

\* C6: a plain-limit row with a soft and a hard value followed only by
\* optional spaces and the line terminator parses with unit = None and its
\* values intact; the parse of that row stops at the end of its own line and
\* never fails.
C6_UnitlessRowParses ==
    \A k \in 2..(NumRows - 1) :
        UnitlessRowAt(table, k) =>
            /\ Failed => step # k
            /\ Len(fields) >= k =>
                  /\ fields[k] = Limit(Lines(table)[k].soft.val,
                                       Lines(table)[k].hard.val, None)
                  /\ offsets[k + 1] = LineEnd(table, k)

C6_Witness ==
    /\ table.p = 5 /\ table.v.unit = NoWord /\ table.v.pad = 1
    /\ UnitlessRowAt(table, 5)
    /\ Len(fields) >= 6
    /\ fields[5].unit = None
    /\ fields[6].soft_limit = 6

-----------------------------------------------------------------------------
NoFinalTerminator(t) ==
    RowsValid(t) /\ t.n = NumRows /\ ~t.nl /\ t.cut = 0

\* C7: a full valid table is accepted whether or not its last row ends with a
\* line terminator.
C7_Original ==
    NoFinalTerminator(table) =>
        /\ ~Failed
        /\ ret # "Err"
        /\ result = "Done" => \A k \in 2..15 : HoldsLimit(fields[k], Lines(table)[k])

\* C7 (amended): the last row must end with a line terminator.  With the final
\* terminator removed the 16th row does not parse (line_ending wants more
\* input), no record is produced and the caller gets a parse error.
C7_FinalTerminatorRequired ==
    NoFinalTerminator(table) =>
        /\ result \in {"Running", "Incomplete"}
        /\ limits = NoLimits
        /\ ret \in {"None", "Err"}
        /\ Returned => step = NumRows /\ Len(fields) = NumRows - 1

C7_Witness ==
    /\ NoFinalTerminator(table)
    /\ step = NumRows /\ result = "Incomplete" /\ ret = "Err"

-----------------------------------------------------------------------------
\* C8: the limit-line parser is applied to the 16 text lines after the header,
\* one line per application; no malformed line is skipped, and a successful
\* parse implies each of the first 16 lines after the header is a well-formed
\* row.
C8_Original ==
    result = "Done" =>
        /\ Len(Lines(table)) >= NumRows
        /\ \A k \in 1..NumRows :
              /\ WellFormed(Lines(table)[k])
              /\ offsets[k + 1] = LineEnd(table, k)

RECURSIVE EndsFrom(_, _)
EndsFrom(ls, start) ==
    IF ls = <<>> THEN <<>>
    ELSE LET e == start + Len(RenderLine(Head(ls)))
         IN  <<e>> \o EndsFrom(Tail(ls), e)

\* Offsets at which the lines of a rendered table end: entry j + 1 is the end
\* of line j, entry 1 the end of the header
LineEnds(t) == <<Len(t.header)>> \o EndsFrom(Lines(t), Len(t.header))

\* C8 (amended): the limit-line parser is applied in order, at most 16 times,
\* and the parse fails at the first application that fails.  An application
\* consumes a run of whole lines: any lines that contain no two consecutive
\* spaces (they are swallowed as part of the discarded label) and then exactly
\* one well-formed row; a line that contains two consecutive spaces is never
\* skipped.  A successful parse is 16 such applications.
C8_SkipsOnlyLinesWithoutBoundary ==
    LET ls == Lines(table)
        E  == LineEnds(table)
        IdxOf(off) ==
            IF \E j \in 1..Len(E) : E[j] = off
            THEN (CHOOSE j \in 1..Len(E) : E[j] = off) - 1
            ELSE -1
    IN  /\ \A k \in 1..Len(fields) :
              LET a == IdxOf(offsets[k])
                  b == IdxOf(offsets[k + 1])
              IN  /\ a >= 0 /\ b > a
                  /\ WellFormed(ls[b])
                  /\ \A j \in (a + 1)..(b - 1) : ~HasDoubleSpace(ls[j])
        /\ result = "Done" => Len(fields) = NumRows
        /\ Failed => Len(fields) < NumRows /\ limits = NoLimits

C8_Witness ==
    /\ table.gap /\ table.n = NumRows
    /\ result = "Done" /\ ret = "Ok"
    /\ offsets[NumRows + 1] = Len(input)
    /\ offsets[5] = LineEnds(table)[9]
    /\ limits["max_open_files"].hard_limit = 24

-----------------------------------------------------------------------------
\* C9: a duration row whose unit is Seconds holds durations of exactly soft
\* and hard seconds, one whose unit is Microseconds durations of exactly soft
\* and hard microseconds; the sign is kept ("unlimited" is -1 of the unit) and
\* the unit field is the classified unit.
C9_DurationConversion ==
    \A k \in 1..Len(fields) :
        IsDurationRow(k) =>
            LET d == RowDescs(table)[k]
                f == fields[k]
            IN  /\ d.unit \in TimeWords
                /\ HoldsDuration(f, d)
                /\ d.unit = SECONDS =>
                      /\ f.soft_limit = Duration(d.soft.val, 0)
                      /\ f.hard_limit = Duration(d.hard.val, 0)
                      /\ f.unit = Some(LimitUnit("Seconds", <<>>))
                /\ d.unit = US => f.unit = Some(LimitUnit("Us", <<>>))
                /\ d.soft.val < 0 <=> f.soft_limit.secs < 0
                /\ d.hard.val < 0 <=> f.hard_limit.secs < 0

C9_Witness ==
    /\ table.p = 1 /\ table.v.unit = US
    /\ Len(fields) >= 1
    /\ fields[1].unit = Some(LimitUnit("Us", <<>>))
    /\ fields[1].soft_limit = Duration(0, 1000)
    /\ fields[1].hard_limit = Duration(0, 17000)

-----------------------------------------------------------------------------
IsSuffix(a, b) == Len(a) <= Len(b) /\ a = Drop(b, Len(b) - Len(a))

C10_State ==
    /\ step \in 0..(NumRows + 1)
    /\ Len(offsets) = step
    /\ Len(fields) = (IF step = 0 THEN 0 ELSE step - 1)
    /\ \A k \in 1..Len(offsets) :
          /\ offsets[k] <= Len(input)
          /\ k > 1 => offsets[k - 1] < offsets[k]
    /\ Consumed = (IF step = 0 THEN 0 ELSE offsets[step])
    /\ result = "Done" <=> limits # NoLimits
    /\ result = "Done" => step = NumRows + 1
    /\ Failed => step <= NumRows
    /\ ret = "Ok" => result = "Done"
    /\ ret = "Err" => result \in {"Error", "Incomplete"}

C10_Step ==
    /\ result = "Running" =>
          \/ /\ step' = step + 1 /\ result' = "Running"
             /\ IsSuffix(rest', rest) /\ Len(rest') < Len(rest)
          \/ /\ step' = step /\ rest' = rest /\ fields' = fields
             /\ result' # "Running"
             /\ result' = "Done" <=> step = NumRows + 1
    /\ result # "Running" =>
          /\ result' = result /\ step' = step /\ rest' = rest
          /\ fields' = fields /\ limits' = limits

\* C10: the assembler is a strict sequence of at most 17 steps (header skip,
\* then rows 1..16 in order).  Row k is attempted only after the header skip
\* and rows 1..k-1 succeeded, each step starts where the previous one stopped
\* and the read position never moves backwards, no step is repeated, and the
\* run ends in a complete record after step 17 or in a failure at the first
\* failing step, after which nothing more is attempted.
C10_StrictSequence == [](C10_State) /\ [][C10_Step]_vars

C10_Witness ==
    /\ table.p = 9 /\ table.v.soft.text = <<"x">> /\ table.n = NumRows
    /\ step = 9 /\ Len(fields) = 8 /\ result = "Error" /\ ret = "Err"

====
